---- MODULE Spec2Model ----
(***************************************************************************)
(* Model of the coaching-tree serverless function:                         *)
(*   add_coaching_node.py  the handler add_coaching_node(event, context)   *)
(*   db/db.py              the gateway class DynamoDB with put_person      *)
(* The external table service is modelled by its put_item contract: an     *)
(* unconditional full-item put keyed by (TableName, id) that either        *)
(* returns an acknowledgement or raises.                                   *)
(***************************************************************************)
EXTENDS Integers, Sequences, FiniteSets, TLC

(***************************************************************************)
(* Bounds and input samples.                                               *)
(***************************************************************************)
\* number of values uuid.uuid4() can hand out, hence the number of
\* put_person calls of one behaviour
MaxUuids == 2

Tables == {"people", "teams"}
Names == {"Ada"}
ChildLists == {<<>>, <<"Cy", "Bob">>}
ParentLists == {<<>>, <<"Grace">>}
SuppliedIds == {"custom-id"}
UUIDs == 1..MaxUuids

Range(s) == {s[i] : i \in DOMAIN s}

(***************************************************************************)
(* Python values.                                                          *)
(***************************************************************************)
\* self.client is either None (falsy) or a boto3 client handle
NoClient == "None"
Boto3Client == "boto3.client('dynamodb')"

\* the empty mapping: a dict without keys
EmptyDict == <<>>

\* str(uuid.uuid4()): the textual form of the generated value
UuidStr(u) == "uuid-" \o ToString(u)

(***************************************************************************)
(* JSON text.  A request document is a dict over a subset of the keys;     *)
(* its text lists the present members in KeyOrder.                         *)
(***************************************************************************)
KeyOrder == <<"type", "name", "children", "parents", "id">>
ListKeys == {"children", "parents"}

JsonString(s) == "\"" \o s \o "\""

RECURSIVE JsonItems(_)
JsonItems(seq) ==
    IF seq = <<>> THEN ""
    ELSE IF Len(seq) = 1 THEN JsonString(Head(seq))
    ELSE JsonString(Head(seq)) \o ", " \o JsonItems(Tail(seq))

JsonList(seq) == "[" \o JsonItems(seq) \o "]"

JsonValue(k, v) == IF k \in ListKeys THEN JsonList(v) ELSE JsonString(v)

RECURSIVE JsonMembers(_, _, _)
JsonMembers(doc, i, first) ==
    IF i > Len(KeyOrder) THEN ""
    ELSE IF KeyOrder[i] \in DOMAIN doc
         THEN (IF first THEN "" ELSE ", ")
              \o JsonString(KeyOrder[i]) \o ": "
              \o JsonValue(KeyOrder[i], doc[KeyOrder[i]])
              \o JsonMembers(doc, i + 1, FALSE)
         ELSE JsonMembers(doc, i + 1, first)

JsonObject(doc) == "{" \o JsonMembers(doc, 1, TRUE) \o "}"

Opt(key, vals) == {EmptyDict} \cup {key :> v : v \in vals}

\* the request documents a client may send: the complete ones, one of them
\* with an "id" of the client's choosing, and one with every subset of the
\* four fields the handler reads
Complete ==
    {("type" :> t) @@ ("name" :> n) @@ ("children" :> c) @@ ("parents" :> p) :
        t \in Tables, n \in Names, c \in ChildLists, p \in ParentLists}

Partial ==
    {t @@ n @@ c @@ p : t \in Opt("type", {"people"}), n \in Opt("name", Names),
                        c \in Opt("children", {<<"Cy", "Bob">>}),
                        p \in Opt("parents", {<<>>})}

WithId ==
    {d @@ ("id" :> i) : d \in {c \in Complete : c["type"] = "teams"
                                                /\ c["children"] # <<>>
                                                /\ c["parents"] # <<>>},
                        i \in SuppliedIds}

Docs == Complete \cup Partial \cup WithId

\* texts that are not JSON: empty, truncated object, bare word
Malformed == {"", "{\"type\": \"people\", \"name\": ", "people"}

DocText == [d \in Docs |-> JsonObject(d)]

Bodies == {DocText[d] : d \in Docs} \cup Malformed

\* json.loads(text): the document whose text this is, or JSONDecodeError
ParseTable ==
    [b \in Bodies |->
        IF \E d \in Docs : DocText[d] = b
        THEN [ok |-> TRUE, value |-> CHOOSE d \in Docs : DocText[d] = b]
        ELSE [ok |-> FALSE, error |-> "JSONDecodeError"]]

\* a parse that falls back to a stock document instead of raising
json_loads_lenient(text) ==
    IF text \in Malformed
    THEN [ok |-> TRUE,
          value |-> [type |-> "people", name |-> "", children |-> <<>>,
                     parents |-> <<>>]]
    ELSE ParseTable[text]

json_loads(text) == ParseTable[text]

\* the acknowledgements put_item returns, and the failures it raises
Acks == {[ResponseMetadata |-> [RequestId |-> r, HTTPStatusCode |-> 200]] :
            r \in {"req-1", "req-2"}}
StoreErrors == {"ProvisionedThroughputExceededException"}

\* json.dumps(response) of an acknowledgement
json_dumps(ack) ==
    "{\"ResponseMetadata\": {\"RequestId\": "
    \o JsonString(ack.ResponseMetadata.RequestId)
    \o ", \"HTTPStatusCode\": "
    \o ToString(ack.ResponseMetadata.HTTPStatusCode) \o "}}"

(***************************************************************************)
(* db/db.py: class DynamoDB                                                *)
(***************************************************************************)
\* a constructor that ignores its argument
DynamoDB_init_fixed(table_name) ==
    [client |-> Boto3Client, table_name |-> "people"]

\* DynamoDB.__init__(self, table_name)
DynamoDB_init(table_name) ==
    [client |-> Boto3Client, table_name |-> table_name]

\* DynamoDB._init_dynamodb_if_needed(self)
init_dynamodb_if_needed(self) ==
    IF self.client = NoClient THEN [self EXCEPT !.client = Boto3Client]
    ELSE self

\* the item put_person builds, with u the value uuid.uuid4() returned
put_person_item(u, name, children, parents) ==
    ("id" :> [S |-> UuidStr(u)]) @@ ("name" :> [S |-> name])
    @@ (IF children # <<>> THEN "children" :> [SS |-> children] ELSE EmptyDict)
    @@ (IF parents # <<>> THEN "parents" :> [SS |-> parents] ELSE EmptyDict)

\* put_person variants, each with one slip:
\* the children attribute is written whether or not the list is empty
put_person_always_children(self, u, name, children, parents) ==
    [self |-> init_dynamodb_if_needed(self), TableName |-> self.table_name,
     Item |-> ("children" :> [SS |-> children])
              @@ put_person_item(u, name, children, parents),
     children |-> children, parents |-> parents]

\* the id is taken from the name
put_person_id_from_name(self, u, name, children, parents) ==
    [self |-> init_dynamodb_if_needed(self), TableName |-> self.table_name,
     Item |-> ("id" :> [S |-> name])
              @@ put_person_item(u, name, children, parents),
     children |-> children, parents |-> parents]

\* the id is computed once, when the module is loaded
put_person_fixed_id(self, u, name, children, parents) ==
    [self |-> init_dynamodb_if_needed(self), TableName |-> self.table_name,
     Item |-> put_person_item(1, name, children, parents),
     children |-> children, parents |-> parents]

\* the name is appended to the list object bound to children
put_person_appending(self, u, name, children, parents) ==
    [self |-> init_dynamodb_if_needed(self), TableName |-> self.table_name,
     Item |-> put_person_item(u, name, children, parents),
     children |-> Append(children, name), parents |-> parents]

\* DynamoDB.put_person(self, name, children, parents) up to the put_item
\* call, with u the value uuid.uuid4() returned.  The result carries the
\* keyword arguments of put_item and the contents of the two list objects
\* bound to children and parents as the call leaves them.
put_person(self, u, name, children, parents) ==
    LET s == init_dynamodb_if_needed(self)
    IN [self |-> s, TableName |-> s.table_name,
        Item |-> put_person_item(u, name, children, parents),
        children |-> children, parents |-> parents]

\* return response
put_person_return(response) == response

\* a put that is issued again after it raised
put_item_raised_retry(err) ==
    [pc |-> "put_item", result |-> [kind |-> "none"]]

\* put_item raised: neither put_person nor add_coaching_node has a try
\* block, so the exception leaves both and the invocation is over
put_item_raised(err) ==
    [pc |-> "done", result |-> [kind |-> "fault", error |-> err]]

\* the table service: an unconditional put replaces the item stored under
\* the same key of the same table
put_item(table, request) ==
    {r \in table : ~(r.TableName = request.TableName
                     /\ r.Item["id"] = request.Item["id"])}
    \cup {[TableName |-> request.TableName, Item |-> request.Item]}

(***************************************************************************)
(* add_coaching_node.py                                                    *)
(***************************************************************************)
\* request_body.get(key, default)
getitem_default(d, key) ==
    IF key \in DOMAIN d THEN [ok |-> TRUE, value |-> d[key]]
    ELSE [ok |-> TRUE, value |-> IF key \in ListKeys THEN <<>> ELSE ""]

\* request_body[key]
getitem(d, key) ==
    IF key \in DOMAIN d THEN [ok |-> TRUE, value |-> d[key]]
    ELSE [ok |-> FALSE, error |-> "KeyError"]

\* add_coaching_node up to the put_person call: the parse, the gateway and
\* the three arguments, in the order the code evaluates them
handler_call(body) ==
    LET parsed == json_loads(body) IN
    IF ~parsed.ok THEN [ok |-> FALSE, error |-> parsed.error]
    ELSE LET ty == getitem(parsed.value, "type")
             nm == getitem(parsed.value, "name")
             ch == getitem(parsed.value, "children")
             pa == getitem(parsed.value, "parents")
         IN IF ~ty.ok THEN [ok |-> FALSE, error |-> ty.error]
            ELSE IF ~nm.ok THEN [ok |-> FALSE, error |-> nm.error]
            ELSE IF ~ch.ok THEN [ok |-> FALSE, error |-> ch.error]
            ELSE IF ~pa.ok THEN [ok |-> FALSE, error |-> pa.error]
            ELSE [ok |-> TRUE, self |-> DynamoDB_init(ty.value),
                  name |-> nm.value, children |-> ch.value,
                  parents |-> pa.value]

\* an envelope with another status
add_coaching_node_return_created(response) ==
    [statusCode |-> 201, body |-> json_dumps(response)]

\* the returned envelope
add_coaching_node_return(response) ==
    [statusCode |-> 200, body |-> json_dumps(response)]

(***************************************************************************)
(* State.                                                                  *)
(***************************************************************************)
VARIABLES
    store,      \* the items held by the table service, as (TableName, Item)
    written,    \* (TableName, id) of every put that succeeded, in order
    generated,  \* the values uuid4 has returned
    defaults,   \* the two default list objects of put_person's signature
    gateways,   \* the DynamoDB instances a caller holds on to
    cur         \* the invocation in progress or the one that ended last

vars == <<store, written, generated, defaults, gateways, cur>>

NoResult == [kind |-> "none"]
NoAck == [ResponseMetadata |-> [RequestId |-> "", HTTPStatusCode |-> 0]]
NoRequest == [TableName |-> "", Item |-> EmptyDict]
NoCall == [name |-> "", children |-> <<>>, parents |-> <<>>,
           omitC |-> FALSE, omitP |-> FALSE,
           childrenAfter |-> <<>>, parentsAfter |-> <<>>]
NoSelf == [client |-> NoClient, table_name |-> ""]

Idle ==
    [op |-> "none", event |-> "", call |-> NoCall, self |-> NoSelf, uuid |-> 0,
     request |-> NoRequest, puts |-> 0, pc |-> "done", failed |-> FALSE,
     ack |-> NoAck, result |-> NoResult, storeBefore |-> {}]

Init ==
    /\ store = {}
    /\ written = <<>>
    /\ generated = {}
    /\ defaults = [children |-> <<>>, parents |-> <<>>]
    /\ gateways = {}
    /\ cur = Idle

\* uuid.uuid4(): a value that no earlier call returned
uuid4 == UUIDs \ generated

\* the state of an invocation blocked in client.put_item
Pending(op, event, call, pp, u) ==
    [Idle EXCEPT !.op = op, !.event = event, !.call = call, !.self = pp.self,
                 !.uuid = u,
                 !.request = [TableName |-> pp.TableName, Item |-> pp.Item],
                 !.puts = 1, !.pc = "put_item", !.storeBefore = store]

(***************************************************************************)
(* Operations.                                                             *)
(***************************************************************************)
\* the platform invokes add_coaching_node(event, context) with event['body']
\* = body; the invocation either faults before the store is reached or
\* blocks in put_item
AddCoachingNode(body) ==
    /\ cur.pc = "done"
    /\ uuid4 # {}
    /\ LET hc == handler_call(body) IN
       IF ~hc.ok
       THEN /\ cur' = [Idle EXCEPT !.op = "handler", !.event = body,
                                   !.result = [kind |-> "fault",
                                               error |-> hc.error],
                                   !.storeBefore = store]
            /\ UNCHANGED generated
       ELSE \E u \in uuid4 :
              LET pp == put_person(hc.self, u, hc.name, hc.children, hc.parents)
                  call == [name |-> hc.name, children |-> hc.children,
                           parents |-> hc.parents,
                           omitC |-> FALSE, omitP |-> FALSE,
                           childrenAfter |-> pp.children,
                           parentsAfter |-> pp.parents]
              IN /\ cur' = Pending("handler", body, call, pp, u)
                 /\ generated' = generated \cup {u}
    /\ UNCHANGED <<store, written, defaults, gateways>>

\* a caller constructs DynamoDB(table_name=t) and keeps the instance
NewGateway(t) ==
    /\ cur.pc = "done"
    /\ gateways' = gateways \cup {DynamoDB_init(t)}
    /\ UNCHANGED <<store, written, generated, defaults, cur>>

\* the ways to pass, or not to pass, an optional list argument
Passed(lists) == {[omit |-> TRUE, value |-> <<>>]}
                 \cup {[omit |-> FALSE, value |-> l] : l \in lists}

\* a caller calls g.put_person(name, ...) on an instance it holds; an
\* omitted argument is bound to the default list object of the signature,
\* and whatever the call does to that object stays
PutPersonCall(g, name, c, p) ==
    /\ cur.pc = "done"
    /\ g \in gateways
    /\ \E u \in uuid4 :
         LET children == IF c.omit THEN defaults.children ELSE c.value
             parents == IF p.omit THEN defaults.parents ELSE p.value
             pp == put_person(g, u, name, children, parents)
             call == [name |-> name, children |-> children,
                      parents |-> parents, omitC |-> c.omit, omitP |-> p.omit,
                      childrenAfter |-> pp.children,
                      parentsAfter |-> pp.parents]
         IN /\ cur' = Pending("put_person", "", call, pp, u)
            /\ generated' = generated \cup {u}
            /\ gateways' = (gateways \ {g}) \cup {pp.self}
            /\ defaults' =
                 [children |-> IF c.omit THEN pp.children ELSE defaults.children,
                  parents |-> IF p.omit THEN pp.parents ELSE defaults.parents]
    /\ UNCHANGED <<store, written>>

\* put_item returns ack: the item is stored, put_person returns the
\* acknowledgement and, in the handler, the envelope is returned
PutItemOk(ack) ==
    /\ cur.pc = "put_item"
    /\ store' = put_item(store, cur.request)
    /\ written' = Append(written, [TableName |-> cur.request.TableName,
                                   id |-> cur.request.Item["id"].S])
    /\ cur' = [cur EXCEPT
                 !.pc = "done",
                 !.ack = ack,
                 !.result =
                    IF cur.op = "handler"
                    THEN [kind |-> "response",
                          value |-> add_coaching_node_return(
                                        put_person_return(ack))]
                    ELSE [kind |-> "return", value |-> put_person_return(ack)]]
    /\ UNCHANGED <<generated, defaults, gateways>>

\* put_item raises err: nothing is stored
PutItemFail(err) ==
    /\ cur.pc = "put_item"
    /\ LET k == put_item_raised(err) IN
       cur' = [cur EXCEPT !.pc = k.pc, !.result = k.result, !.failed = TRUE,
                          !.puts = IF k.pc = "put_item" THEN @ + 1 ELSE @]
    /\ UNCHANGED <<store, written, generated, defaults, gateways>>

Next ==
    \/ \E body \in Bodies : AddCoachingNode(body)
    \/ \E t \in Tables : NewGateway(t)
    \/ \E g \in gateways, name \in Names, c \in Passed(ChildLists),
          p \in Passed(ParentLists) : PutPersonCall(g, name, c, p)
    \/ \E ack \in Acks : PutItemOk(ack)
    \/ \E err \in StoreErrors : PutItemFail(err)

Spec == Init /\ [][Next]_vars

(***************************************************************************)
(* Properties.                                                             *)
(***************************************************************************)
Item == cur.request.Item
Doc == ParseTable[cur.event].value
Parses == cur.event \notin Malformed
Returned == cur.pc = "done" /\ cur.result.kind \in {"response", "return"}
HandlerKeys == {"type", "name", "children", "parents"}
Stored(request) == [TableName |-> request.TableName, Item |-> request.Item]

\* C1: the item handed to put_item has a children attribute exactly when
\* the children list put_person received is non-empty, a parents attribute
\* exactly when the parents list is non-empty, and neither the request nor
\* the table ever holds an empty string set.
C1_AttributesIffNonEmpty ==
    /\ cur.puts > 0 =>
         /\ ("children" \in DOMAIN Item) <=> (cur.call.children # <<>>)
         /\ ("parents" \in DOMAIN Item) <=> (cur.call.parents # <<>>)
         /\ \A k \in DOMAIN Item \cap ListKeys : Item[k].SS # <<>>
    /\ \A r \in store : \A k \in DOMAIN r.Item \cap ListKeys : r.Item[k].SS # <<>>

C1_Witness ==
    /\ Returned
    /\ cur.call.children = <<>>
    /\ cur.call.parents # <<>>
    /\ DOMAIN Item = {"id", "name", "parents"}
    /\ Stored(cur.request) \in store

\* C2 (as claimed): a handler invocation whose body has type and name but
\* omits children or parents gets as far as the write, as it does when the
\* list is given and empty.
C2_OmittedAccepted ==
    (/\ cur.op = "handler"
     /\ Parses
     /\ {"type", "name"} \subseteq DOMAIN Doc
     /\ ~(ListKeys \subseteq DOMAIN Doc))
    => /\ cur.puts = 1
       /\ cur.result.kind = "fault" => cur.failed

\* C3: with both lists non-empty the item has exactly the attributes id,
\* name, children and parents; name, children and parents are the values
\* supplied, in the order supplied; id is the text of the value uuid4
\* returned in this call and is none of the strings the caller sent.
C3_FullItem ==
    (cur.puts > 0 /\ cur.call.children # <<>> /\ cur.call.parents # <<>>)
    => /\ DOMAIN Item = {"id", "name", "children", "parents"}
       /\ Item["name"] = [S |-> cur.call.name]
       /\ Item["children"] = [SS |-> cur.call.children]
       /\ Item["parents"] = [SS |-> cur.call.parents]
       /\ Item["id"] = [S |-> UuidStr(cur.uuid)]
       /\ cur.uuid \in generated
       /\ Item["id"].S \notin {cur.call.name} \cup Range(cur.call.children)
                                \cup Range(cur.call.parents)
       /\ cur.op = "handler" =>
            /\ cur.call.name = Doc["name"]
            /\ cur.call.children = Doc["children"]
            /\ cur.call.parents = Doc["parents"]
            /\ "id" \in DOMAIN Doc => Item["id"].S # Doc["id"]

C3_Witness ==
    /\ cur.op = "handler"
    /\ Returned
    /\ "id" \in DOMAIN Doc
    /\ cur.call.children = <<"Cy", "Bob">>
    /\ cur.call.parents = <<"Grace">>
    /\ Stored(cur.request) \in store

\* C4: the ids of the puts that succeeded are pairwise distinct, across
\* tables and gateway instances; every one of them is still stored, and the
\* table service holds as many items as puts succeeded.
C4_DistinctIds ==
    /\ \A i, j \in DOMAIN written : i # j => written[i].id # written[j].id
    /\ \A i \in DOMAIN written :
         \E r \in store : r.TableName = written[i].TableName
                          /\ r.Item["id"].S = written[i].id
    /\ Cardinality(store) = Len(written)

C4_Witness ==
    /\ Len(written) = 2
    /\ cur.op = "handler"
    /\ Returned
    /\ \E r \in cur.storeBefore :
         /\ r.TableName = cur.request.TableName
         /\ r.Item["id"] # Item["id"]
         /\ \A k \in {"name", "children", "parents"} :
              /\ k \in DOMAIN r.Item <=> k \in DOMAIN Item
              /\ k \in DOMAIN Item => r.Item[k] = Item[k]

\* C5: a handler invocation that reaches the store puts into the table
\* named by the type field of its body; its gateway carries that name, and
\* the items of every other table are as they were when it started.
C5_TableIsType ==
    (cur.op = "handler" /\ cur.puts > 0)
    => /\ cur.request.TableName = Doc["type"]
       /\ cur.self.table_name = Doc["type"]
       /\ {r \in store : r.TableName # Doc["type"]}
            = {r \in cur.storeBefore : r.TableName # Doc["type"]}

C5_Witness ==
    /\ cur.op = "handler"
    /\ Returned
    /\ Doc["type"] = "teams"
    /\ Stored(cur.request) \in store
    /\ \E r \in cur.storeBefore : r.TableName = "people"

\* C6: a body that is not JSON ends the invocation in a fault before
\* put_item is called: no put is issued, the table service holds what it
\* held, and no envelope is returned.
C6_MalformedNoWrite ==
    (cur.op = "handler" /\ cur.event \in Malformed)
    => /\ cur.pc = "done"
       /\ cur.puts = 0
       /\ store = cur.storeBefore
       /\ cur.result = [kind |-> "fault", error |-> "JSONDecodeError"]

C6_Witness ==
    /\ cur.op = "handler"
    /\ cur.event = "{\"type\": \"people\", \"name\": "
    /\ cur.result.kind = "fault"
    /\ store # {}

\* C7: a body that parses but has no name field ends the invocation in a
\* fault: no put is issued, the table service holds what it held, and no
\* envelope is returned.
C7_MissingNameNoWrite ==
    (cur.op = "handler" /\ Parses /\ "name" \notin DOMAIN Doc)
    => /\ cur.pc = "done"
       /\ cur.puts = 0
       /\ store = cur.storeBefore
       /\ cur.result = [kind |-> "fault", error |-> "KeyError"]

C7_Witness ==
    /\ cur.op = "handler"
    /\ cur.event = "{\"type\": \"people\", \"children\": [\"Cy\", \"Bob\"], \"parents\": []}"
    /\ cur.result.kind = "fault"
    /\ store # {}

\* C8: an envelope returned by the handler has statusCode 200 and, as body,
\* the JSON text of the acknowledgement put_item returned to this
\* invocation; it is returned only once that put has succeeded, and
\* put_person hands the acknowledgement on as it got it.
C8_ResponseMirrorsAck ==
    /\ (cur.op = "handler" /\ cur.result.kind = "response") =>
         /\ cur.result.value.statusCode = 200
         /\ cur.ack \in Acks
         /\ cur.result.value.body = json_dumps(cur.ack)
         /\ cur.pc = "done" /\ cur.puts = 1 /\ ~cur.failed
         /\ Stored(cur.request) \in store
         /\ written # <<>> /\ written[Len(written)].id = Item["id"].S
    /\ (cur.op = "handler" /\ cur.pc = "put_item") => cur.result.kind = "none"
    /\ cur.op = "handler" => cur.result.kind \in {"none", "fault", "response"}
    /\ cur.result.kind = "return" => cur.ack \in Acks /\ cur.result.value = cur.ack

C8_Witness ==
    /\ cur.op = "handler"
    /\ cur.result.kind = "response"
    /\ cur.ack.ResponseMetadata.RequestId = "req-2"
    /\ cur.result.value.body =
         "{\"ResponseMetadata\": {\"RequestId\": \"req-2\", \"HTTPStatusCode\": 200}}"

\* C9: an invocation calls put_item at most once, and exactly once when
\* its body is one the handler accepts (it parses and has the four fields
\* the handler reads); a put that raised is not issued again and its error
\* is the invocation's fault; an invocation adds at most the one item it
\* put.
ValidBody == Parses /\ HandlerKeys \subseteq DOMAIN Doc

ExpectedItem ==
    LET c == IF cur.call.omitC THEN <<>> ELSE cur.call.children
        p == IF cur.call.omitP THEN <<>> ELSE cur.call.parents
        keys == {"id", "name"} \cup (IF c # <<>> THEN {"children"} ELSE {})
                               \cup (IF p # <<>> THEN {"parents"} ELSE {})
    IN [k \in keys |->
          CASE k = "id" -> [S |-> UuidStr(cur.uuid)]
            [] k = "name" -> [S |-> cur.call.name]
            [] k = "children" -> [SS |-> c]
            [] k = "parents" -> [SS |-> p]]

C10_NoSharedState ==
    /\ defaults = [children |-> <<>>, parents |-> <<>>]
    /\ cur.call.childrenAfter = cur.call.children
    /\ cur.call.parentsAfter = cur.call.parents
    /\ cur.puts > 0 =>
         /\ cur.call.omitC => "children" \notin DOMAIN Item
         /\ cur.call.omitP => "parents" \notin DOMAIN Item
         /\ Item = ExpectedItem
         /\ cur.uuid \notin {u \in UUIDs : \E r \in cur.storeBefore :
                                             r.Item["id"].S = UuidStr(u)}

C10_Witness ==
    /\ cur.op = "put_person"
    /\ Returned
    /\ cur.call.omitC /\ cur.call.omitP
    /\ DOMAIN Item = {"id", "name"}
    /\ \E r \in cur.storeBefore : DOMAIN r.Item = {"id", "name"}
    /\ Cardinality(store) = 2

====
